---- MODULE Spec2Model ----
(***************************************************************************)
(* Donation platform backend (FastAPI + SQLModel): the route handlers of   *)
(* app/main.py and the token functions of app/jwt.py, as a state machine   *)
(* over the three tables of app/models.py.                                 *)
(*                                                                         *)
(* Every handler is an async coroutine that owns a private session; it can *)
(* be suspended at each `await` that talks to the database.  A handler is  *)
(* therefore modelled as one action per stretch of code between two such   *)
(* awaits, and MaxReq handlers run interleaved.  A commit is atomic and    *)
(* the database enforces what the table declarations of app/models.py      *)
(* state: primary keys, NOT NULL columns and the two foreign keys of       *)
(* Donation.  Neither User.email nor User.username is declared unique.     *)
(***************************************************************************)
EXTENDS Naturals, FiniteSets, Sequences, TLC

VARIABLES
    users,          \* table user: set of [id, username, email, password]
    causes,         \* table cause: set of [id, name]
    donations,      \* table donation: set of [id, donor_id, cause_id, amount]
    nextUserId,     \* primary-key sequences
    nextCauseId,
    nextDonationId,
    origin,         \* history: <<donation id, provider event id>> of each insert
    sessions,       \* checkout sessions created at the payment provider
    req,            \* the in-flight requests, one record per slot
    now,            \* the clock, in minutes
    issued          \* history: the tokens login has returned

vars == <<users, causes, donations, nextUserId, nextCauseId, nextDonationId,
          origin, sessions, req, now, issued>>

dbVars == <<users, causes, donations, nextUserId, nextCauseId, nextDonationId>>

authVars == <<now, issued>>

-----------------------------------------------------------------------------
(* Bounds of the model *)

MaxReq == 2
MaxUsers == 2
MaxCauses == 2
MaxDonations == 2
MaxSessions == 1
MaxTokens == 2
MaxTime == 45
TickMinutes == 15

(* Program constants *)

ACCESS_TOKEN_EXPIRE_MINUTES == 30
MinorUnitsPerUnit == 100

SECRET_KEY == "SECRET_KEY"

Reqs == 1..MaxReq

Emails == {"a@x.org", "b@x.org"}

NoId == 0

-----------------------------------------------------------------------------
(* Request slots *)

Idle ==
    [op |-> "none", pc |-> "idle", arg |-> <<>>, cause |-> NoId, user |-> NoId,
     status |-> 0, detail |-> ""]

\* A handler that has returned or raised: only the response is left.
Done(op, status, detail) ==
    [op |-> op, pc |-> "done", arg |-> <<>>, cause |-> NoId, user |-> NoId,
     status |-> status, detail |-> detail]

Free(r) == req[r].pc \in {"idle", "done"}

-----------------------------------------------------------------------------
(* Initial database: empty tables, fresh sequences *)

Init ==
    /\ users = {}
    /\ causes = {}
    /\ donations = {}
    /\ nextUserId = 1
    /\ nextCauseId = 1
    /\ nextDonationId = 1
    /\ origin = {}
    /\ sessions = {}
    /\ req = [r \in Reqs |-> Idle]
    /\ now = 0
    /\ issued = {}

-----------------------------------------------------------------------------
(* app/utils.py (not among the sources): one-way hash and its check *)

hash_pass(password) == <<"hashed", password>>

verify_password(password, hashed) == hashed = hash_pass(password)

-----------------------------------------------------------------------------
(* POST /register/ *)

Usernames == {"alice", "bob"}

Passwords == {"pw1", "pw2"}

\* The UserCreate bodies the ledger runs register with.
UserCreate ==
    {[username |-> "alice", email |-> "a@x.org", password |-> "pw1"],
     [username |-> "bob", email |-> "b@x.org", password |-> "pw2"]}

\* Registrations that have passed the email check and not yet committed.
PendingRegisters == {r \in Reqs : req[r].op = "register" /\ req[r].pc = "commit"}

\* select(User).where(User.email == user.email), .first(), the 400
RegisterSelect(r, user) ==
    /\ Free(r)
    /\ nextUserId + Cardinality(PendingRegisters) <= MaxUsers
    /\ LET existing_user == {u \in users : u.email = user.email}
       IN  req' = [req EXCEPT ![r] =
                IF existing_user # {}
                THEN Done("register", 400, "Email already registered")
                ELSE [Idle EXCEPT !.op = "register", !.pc = "commit",
                                  !.arg = user]]
    /\ UNCHANGED <<dbVars, origin, sessions, authVars>>

\* User(**user.model_dump()), hash_pass, session.add, commit, refresh
RegisterCommit(r) ==
    /\ req[r].op = "register" /\ req[r].pc = "commit"
    /\ LET new_user == [id |-> nextUserId,
                        username |-> req[r].arg.username,
                        email |-> req[r].arg.email,
                        password |-> hash_pass(req[r].arg.password)]
       IN  users' = users \cup {new_user}
    /\ nextUserId' = nextUserId + 1
    /\ req' = [req EXCEPT ![r] = Done("register", 200, "")]
    /\ UNCHANGED <<causes, donations, nextCauseId, nextDonationId, origin,
                   sessions, authVars>>

-----------------------------------------------------------------------------
(* /causes/ : create, update, delete *)

\* The name a cause is created with, and the name an update gives it.
CreatedName == "wells"

UpdatedName == "schools"

CauseIds == 1..MaxCauses

CauseById(id) == {c \in causes : c.id = id}

\* POST /causes/: the row is built from the form alone, one commit
CreateCause(r, name) ==
    /\ Free(r)
    /\ nextCauseId <= MaxCauses
    /\ causes' = causes \cup {[id |-> nextCauseId, name |-> name]}
    /\ nextCauseId' = nextCauseId + 1
    /\ req' = [req EXCEPT ![r] = Done("create_cause", 200, "")]
    /\ UNCHANGED <<users, donations, nextUserId, nextDonationId, origin,
                   sessions, authVars>>

\* PUT /causes/{cause_id}: session.get and the 404
UpdateCauseGet(r, cause_id, name) ==
    /\ Free(r)
    /\ req' = [req EXCEPT ![r] =
            IF CauseById(cause_id) = {}
            THEN Done("update_cause", 404, "Cause not found")
            ELSE [Idle EXCEPT !.op = "update_cause", !.pc = "commit",
                              !.arg = name, !.cause = cause_id]]
    /\ UNCHANGED <<dbVars, origin, sessions, authVars>>

\* PUT /causes/{cause_id}: the assignments, commit and refresh.  The UPDATE
\* of a row that was deleted meanwhile matches nothing: StaleDataError.
UpdateCauseCommit(r) ==
    /\ req[r].op = "update_cause" /\ req[r].pc = "commit"
    /\ IF CauseById(req[r].cause) = {}
       THEN /\ req' = [req EXCEPT ![r] =
                    Done("update_cause", 500, "StaleDataError")]
            /\ UNCHANGED causes
       ELSE /\ causes' = (causes \ CauseById(req[r].cause))
                         \cup {[id |-> req[r].cause, name |-> req[r].arg]}
            /\ req' = [req EXCEPT ![r] = Done("update_cause", 200, "")]
    /\ UNCHANGED <<users, donations, nextUserId, nextCauseId, nextDonationId,
                   origin, sessions, authVars>>

\* DELETE /causes/{cause_id}: session.get and the 404
DeleteCauseGet(r, cause_id) ==
    /\ Free(r)
    /\ req' = [req EXCEPT ![r] =
            IF CauseById(cause_id) = {}
            THEN Done("delete_cause", 404, "Cause not found")
            ELSE [Idle EXCEPT !.op = "delete_cause", !.pc = "commit",
                              !.cause = cause_id]]
    /\ UNCHANGED <<dbVars, origin, sessions, authVars>>

\* The donations of a cause: Cause.donations, and the rows whose foreign key
\* Donation.cause_id the database checks when the cause row is deleted.
ReferencingDonations(cause_id) == {d \in donations : d.cause_id = cause_id}

\* DELETE /causes/{cause_id}: session.delete and commit.  Cause.donations has
\* no delete cascade, so the flush detaches the cause's donations by setting
\* Donation.cause_id to NULL, which the NOT NULL column refuses; the foreign
\* key refuses the DELETE of a referenced row likewise.  Either way the
\* commit raises IntegrityError and nothing is deleted.
DeleteCauseCommit(r) ==
    /\ req[r].op = "delete_cause" /\ req[r].pc = "commit"
    /\ IF ReferencingDonations(req[r].cause) # {}
       THEN /\ req' = [req EXCEPT ![r] =
                    Done("delete_cause", 500, "IntegrityError")]
            /\ UNCHANGED causes
       ELSE /\ causes' = causes \ CauseById(req[r].cause)
            /\ req' = [req EXCEPT ![r] =
                    Done("delete_cause", 200, "Cause deleted successfully")]
    /\ UNCHANGED <<users, donations, nextUserId, nextCauseId, nextDonationId,
                   origin, sessions, authVars>>

-----------------------------------------------------------------------------
(* POST /causes/{id}/create-checkout-session *)

\* metadata={"cause_id": id}
CheckoutMetadata(id) == [cause_id |-> id]

\* The cause lookup and its 404, then stripe.checkout.Session.create, which
\* either returns a session (303 to its url) or raises (400).
CreateCheckoutSession(r, id, providerAnswers) ==
    /\ Free(r)
    /\ IF CauseById(id) = {}
       THEN /\ req' = [req EXCEPT ![r] =
                    Done("create_checkout_session", 404, "Cause not found")]
            /\ UNCHANGED sessions
       ELSE IF providerAnswers
       THEN /\ Cardinality(sessions) < MaxSessions
            /\ sessions' = sessions \cup {[metadata |-> CheckoutMetadata(id)]}
            /\ req' = [req EXCEPT ![r] =
                    Done("create_checkout_session", 303, "")]
       ELSE /\ req' = [req EXCEPT ![r] =
                    Done("create_checkout_session", 400, "stripe error")]
            /\ UNCHANGED sessions
    /\ UNCHANGED <<dbVars, origin, authVars>>

-----------------------------------------------------------------------------
(* POST /stripe/webhook *)

STRIPE_ENDPOINT_SECRET == "whsec_endpoint"

\* Events of the payment provider.  An event is identified by its id; the
\* provider redelivers an event with the same id and the same content.
ProviderEvents ==
    {[id |-> <<"evt", 1>>, type |-> "charge.succeeded", metadata |-> [id |-> 1],
      amount |-> 2500, email |-> "a@x.org"],
     [id |-> <<"evt", 2>>, type |-> "charge.succeeded", metadata |-> [id |-> 2],
      amount |-> 1999, email |-> "b@x.org"],
     [id |-> <<"evt", 3>>, type |-> "charge.failed", metadata |-> [id |-> 1],
      amount |-> 2500, email |-> "a@x.org"]}

\* The charge of a checkout session carries the metadata the session was
\* created with.
SessionEvents ==
    {[id |-> <<"evt_cs", s.metadata.cause_id>>, type |-> "charge.succeeded", metadata |-> s.metadata,
      amount |-> 2500, email |-> "a@x.org"] : s \in sessions}

\* A request body with its stripe-signature header: the event it encodes,
\* the secret the header was computed with, and whether the bytes are JSON.
Payloads ==
    [event : ProviderEvents \cup SessionEvents,
     signedWith : {STRIPE_ENDPOINT_SECRET, "whsec_other"},
     json : {TRUE}]
    \cup
    [event : {e \in ProviderEvents : e.id = <<"evt", 1>>},
     signedWith : {STRIPE_ENDPOINT_SECRET, "whsec_other"},
     json : {FALSE}]

\* stripe.Webhook.construct_event without the signature check
construct_event_unverified(payload, endpoint_secret) ==
    IF ~payload.json
    THEN [ok |-> FALSE, detail |-> "Invalid payload", event |-> payload.event]
    ELSE [ok |-> TRUE, detail |-> "", event |-> payload.event]

\* stripe.Webhook.construct_event: the header is verified against the raw
\* bytes first (SignatureVerificationError), then the bytes are parsed
\* (ValueError); the two except clauses turn these into the 400s.
construct_event(payload, endpoint_secret) ==
    IF payload.signedWith # endpoint_secret
    THEN [ok |-> FALSE, detail |-> "Invalid signature", event |-> payload.event]
    ELSE IF ~payload.json
    THEN [ok |-> FALSE, detail |-> "Invalid payload", event |-> payload.event]
    ELSE [ok |-> TRUE, detail |-> "", event |-> payload.event]

\* amount / 100, forgotten
AmountInMinorUnits(amount) == [units |-> amount, cents |-> 0]

\* amount / 100: the quotient as a decimal number, units and hundredths
AmountInUnits(amount) ==
    [units |-> amount \div MinorUnitsPerUnit, cents |-> amount % MinorUnitsPerUnit]

\* Donation(donor_id=user.id, amount=amount / 100, cause_id=cause.id)
NewDonation(user_id, amount, cause_id) ==
    [id |-> nextDonationId, donor_id |-> user_id, cause_id |-> cause_id,
     amount |-> AmountInUnits(amount)]

\* No foreign keys on Donation
ForeignKeysUnchecked(d) == TRUE

\* Donation.donor_id = Field(foreign_key="user.id"),
\* Donation.cause_id = Field(foreign_key="cause.id"): checked on INSERT
ForeignKeysHold(d) ==
    /\ \E u \in users : u.id = d.donor_id
    /\ \E c \in causes : c.id = d.cause_id

\* Webhook deliveries that have not finished.
PendingWebhooks ==
    {r \in Reqs : req[r].op = "stripe_webhook" /\ req[r].pc # "done"}

\* payload = await request.body(), the stripe-signature header
WebhookBody(r, payload) ==
    /\ Free(r)
    /\ nextDonationId + Cardinality(PendingWebhooks) <= MaxDonations
    /\ req' = [req EXCEPT ![r] =
            [Idle EXCEPT !.op = "stripe_webhook", !.pc = "construct_event",
                         !.arg = payload]]
    /\ UNCHANGED <<dbVars, origin, sessions, authVars>>

\* construct_event and its two 400s, the event type test, the metadata and
\* amount reads, session.get(Cause, data["id"])
WebhookReceive(r) ==
    /\ req[r].op = "stripe_webhook" /\ req[r].pc = "construct_event"
    /\ LET res == construct_event(req[r].arg, STRIPE_ENDPOINT_SECRET)
           event == res.event
       IN  req' = [req EXCEPT ![r] =
               IF ~res.ok
               THEN Done("stripe_webhook", 400, res.detail)
               ELSE IF event.type # "charge.succeeded"
               THEN Done("stripe_webhook", 200, "")
               ELSE IF "id" \notin DOMAIN event.metadata
               THEN Done("stripe_webhook", 500, "KeyError")
               ELSE [Idle EXCEPT !.op = "stripe_webhook",
                                 !.pc = "select_user",
                                 !.arg = event,
                                 !.cause =
                                    IF CauseById(event.metadata.id) = {}
                                    THEN NoId ELSE event.metadata.id]]
    /\ UNCHANGED <<dbVars, origin, sessions, authVars>>

\* select(User).where(User.email == billing email), user.first(), user[0]
\* (TypeError on None), the 404.  first() returns one of the matching rows.
WebhookSelectUser(r) ==
    /\ req[r].op = "stripe_webhook" /\ req[r].pc = "select_user"
    /\ LET matching == {u \in users : u.email = req[r].arg.email}
       IN  IF matching = {}
           THEN req' = [req EXCEPT ![r] = Done("stripe_webhook", 500, "TypeError")]
           ELSE \E user \in matching :
                  req' = [req EXCEPT ![r] =
                      IF req[r].cause = NoId
                      THEN Done("stripe_webhook", 404, "Cause or User not found")
                      ELSE [req[r] EXCEPT !.pc = "commit", !.user = user.id]]
    /\ UNCHANGED <<dbVars, origin, sessions, authVars>>

\* Donation(...), session.add, commit, Response(status_code=200)
WebhookCommit(r) ==
    /\ req[r].op = "stripe_webhook" /\ req[r].pc = "commit"
    /\ LET new_donation == NewDonation(req[r].user, req[r].arg.amount, req[r].cause)
       IN  IF ForeignKeysHold(new_donation)
           THEN /\ donations' = donations \cup {new_donation}
                /\ nextDonationId' = nextDonationId + 1
                /\ origin' = origin \cup {<<new_donation.id, req[r].arg.id>>}
                /\ req' = [req EXCEPT ![r] = Done("stripe_webhook", 200, "")]
           ELSE /\ req' = [req EXCEPT ![r] =
                        Done("stripe_webhook", 500, "IntegrityError")]
                /\ UNCHANGED <<donations, nextDonationId, origin>>
    /\ UNCHANGED <<users, causes, nextUserId, nextCauseId, sessions, authVars>>

-----------------------------------------------------------------------------
(* The ledger: registration, causes, checkout and webhook deliveries *)

Next ==
    \E r \in Reqs :
        \/ \E user \in UserCreate : RegisterSelect(r, user)
        \/ RegisterCommit(r)
        \/ CreateCause(r, CreatedName)
        \/ \E id \in CauseIds : UpdateCauseGet(r, id, UpdatedName)
        \/ UpdateCauseCommit(r)
        \/ \E id \in CauseIds : DeleteCauseGet(r, id)
        \/ DeleteCauseCommit(r)
        \/ \E id \in CauseIds, answers \in BOOLEAN :
              CreateCheckoutSession(r, id, answers)
        \/ \E payload \in Payloads : WebhookBody(r, payload)
        \/ WebhookReceive(r)
        \/ WebhookSelectUser(r)
        \/ WebhookCommit(r)

Spec == Init /\ [][Next]_vars

-----------------------------------------------------------------------------
(* app/jwt.py: tokens *)

\* Python values whose type matters to the token model
PyInt(n) == [type |-> "int", val |-> n]

PyStr(n) == [type |-> "str", val |-> n]

\* jose.jwt.encode: the claims, signed with the key
jwt_encode(claims, key) == [claims |-> claims, signedWith |-> key]

\* jose.jwt.decode: JWTError when the signature was not made with the key,
\* or when the registered claim "exp" is present and in the past
jwt_decode(token, key, time) ==
    IF token.signedWith # key
    THEN [error |-> TRUE, claims |-> token.claims]
    ELSE IF "exp" \in DOMAIN token.claims /\ token.claims.exp < time
    THEN [error |-> TRUE, claims |-> token.claims]
    ELSE [error |-> FALSE, claims |-> token.claims]

\* expire.strftime("%Y-%m-%d %H:%M:%S")
strftime(time) == PyStr(time)

\* create_access_token: the data, plus the claim "expire"
create_access_token(data, time) ==
    jwt_encode(data @@ [expire |-> strftime(time + ACCESS_TOKEN_EXPIRE_MINUTES)],
               SECRET_KEY)

\* verify_token_access: jwt.decode, payload.get("user_id"), DataToken(id=id).
\* DataToken.id is Optional[str]: pydantic refuses any other type with a
\* ValidationError, which is no JWTError and is not caught.
verify_token_access(token, time) ==
    LET payload == jwt_decode(token, SECRET_KEY, time)
    IN  IF payload.error
        THEN [kind |-> "credentials_exception", id |-> PyStr(NoId)]
        ELSE IF "user_id" \notin DOMAIN payload.claims
        THEN [kind |-> "credentials_exception", id |-> PyStr(NoId)]
        ELSE IF payload.claims.user_id.type # "str"
        THEN [kind |-> "ValidationError", id |-> PyStr(NoId)]
        ELSE [kind |-> "token_data", id |-> payload.claims.user_id]

-----------------------------------------------------------------------------
(* POST /login/ *)

\* select(User).where(User.username == ...), .first(), the 400;
\* verify_password, the 401; create_access_token
Login(r, username, password) ==
    /\ Free(r)
    /\ LET matching == {u \in users : u.username = username}
       IN  IF matching = {}
           THEN /\ req' = [req EXCEPT ![r] =
                        Done("login", 400, "Invalid credentials")]
                /\ UNCHANGED issued
           ELSE \E existing_user \in matching :
                  IF ~verify_password(password, existing_user.password)
                  THEN /\ req' = [req EXCEPT ![r] =
                               Done("login", 401, "Invalid credentials")]
                       /\ UNCHANGED issued
                  ELSE /\ Cardinality(issued) < MaxTokens
                       /\ issued' = issued \cup
                            {[token |-> create_access_token(
                                            [user_id |-> PyInt(existing_user.id)], now),
                              user_id |-> existing_user.id,
                              at |-> now]}
                       /\ req' = [req EXCEPT ![r] = Done("login", 200, "")]
    /\ UNCHANGED <<dbVars, origin, sessions, now>>

-----------------------------------------------------------------------------
(* get_current_user *)

\* Bearer tokens a client may present besides the issued ones: signed with
\* the secret and naming an identity as a string, signed with another key,
\* and signed with the secret without an identity claim.
PresentedTokens ==
    {jwt_encode([user_id |-> PyStr(i)], SECRET_KEY) : i \in 1..MaxUsers}
    \cup {jwt_encode([user_id |-> PyStr(1)], "other key")}
    \cup {jwt_encode([expire |-> strftime(ACCESS_TOKEN_EXPIRE_MINUTES)], SECRET_KEY)}

\* verify_token_access(token, credentials_exception)
GetCurrentUserVerify(r, token) ==
    /\ Free(r)
    /\ LET token_data == verify_token_access(token, now)
       IN  req' = [req EXCEPT ![r] =
               IF token_data.kind = "credentials_exception"
               THEN Done("get_current_user", 401, "Could not Validate Credentials")
               ELSE IF token_data.kind = "ValidationError"
               THEN Done("get_current_user", 500, "ValidationError")
               ELSE [Idle EXCEPT !.op = "get_current_user", !.pc = "select",
                                 !.arg = token_data.id]]
    /\ UNCHANGED <<dbVars, origin, sessions, authVars>>

\* select(User).where(User.id == token.id), .first(), existing_user[0].
\* token.id is a str compared with an integer column: the driver either
\* converts it or refuses the parameter.
GetCurrentUserSelect(r, driverConverts) ==
    /\ req[r].op = "get_current_user" /\ req[r].pc = "select"
    /\ LET matching == {u \in users : u.id = req[r].arg.val}
       IN  IF ~driverConverts
           THEN req' = [req EXCEPT ![r] =
                    Done("get_current_user", 500, "DBAPIError")]
           ELSE IF matching = {}
           THEN req' = [req EXCEPT ![r] =
                    Done("get_current_user", 500, "TypeError")]
           ELSE \E existing_user \in matching :
                  req' = [req EXCEPT ![r] =
                      [Done("get_current_user", 200, "")
                          EXCEPT !.user = existing_user.id]]
    /\ UNCHANGED <<dbVars, origin, sessions, authVars>>

\* Time passes.
Tick ==
    /\ now + TickMinutes <= MaxTime
    /\ now' = now + TickMinutes
    /\ UNCHANGED <<dbVars, origin, sessions, req, issued>>

-----------------------------------------------------------------------------
(* Authentication: registration, login, the auth guard, the clock *)

NextAuth ==
    \/ \E r \in Reqs :
        \/ \E user \in UserCreate : RegisterSelect(r, user)
        \/ RegisterCommit(r)
        \/ \E username \in Usernames, password \in Passwords :
              Login(r, username, password)
        \/ \E token \in PresentedTokens \cup {i.token : i \in issued} :
              GetCurrentUserVerify(r, token)
        \/ \E driverConverts \in BOOLEAN : GetCurrentUserSelect(r, driverConverts)
    \/ Tick

SpecAuth == Init /\ [][NextAuth]_vars

-----------------------------------------------------------------------------
(* Properties *)

\* C1: for every charge-succeeded event id, however often and in whatever
\* interleaving the event is delivered, the ledger holds at most one
\* Donation for it.
C1_AtMostOneDonationPerEvent ==
    \A o1 \in origin : \A o2 \in origin : o1[2] = o2[2] => o1[1] = o2[1]

\* C2: every persisted Donation names an existing User as donor and an
\* existing Cause, whatever requests ran and however they interleaved.
C2_ReferentialIntegrity ==
    \A d \in donations :
        /\ \E u \in users : u.id = d.donor_id
        /\ \E c \in causes : c.id = d.cause_id

\* A delete_cause refused after a donation was recorded, and a webhook insert
\* refused because the cause was deleted after the existence check.
C2_Witness ==
    /\ donations # {}
    /\ \E r \in Reqs : req[r] = Done("delete_cause", 500, "IntegrityError")
    /\ \E r \in Reqs : req[r] = Done("stripe_webhook", 500, "IntegrityError")

\* The User rows with this billing email, the Cause rows with this id
UsersByEmail(email) == {u \in users : u.email = email}

\* A step of request r that leaves the tables as they are
TablesUnchanged == users' = users /\ causes' = causes /\ donations' = donations

\* C3: a delivery of a validly signed charge-succeeded event whose metadata
\* id names an existing Cause and whose billing email is that of an existing
\* User resolves both without touching the tables, then adds exactly one
\* Donation with amount = minor units / 100 for that user and that cause,
\* changes no other record and answers 200.
C3_ChargeSucceededAddsOneDonation ==
    [][\A r \in Reqs :
        /\ ( /\ req[r].op = "stripe_webhook" /\ req[r].pc = "construct_event"
             /\ req'[r].pc # "construct_event"
             /\ req[r].arg.signedWith = STRIPE_ENDPOINT_SECRET
             /\ req[r].arg.json
             /\ req[r].arg.event.type = "charge.succeeded"
             /\ "id" \in DOMAIN req[r].arg.event.metadata
             /\ CauseById(req[r].arg.event.metadata.id) # {} )
           => /\ req'[r].pc = "select_user"
              /\ req'[r].cause = req[r].arg.event.metadata.id
              /\ TablesUnchanged
        /\ ( /\ req[r].op = "stripe_webhook" /\ req[r].pc = "select_user"
             /\ req'[r].pc # "select_user"
             /\ req[r].cause # NoId
             /\ UsersByEmail(req[r].arg.email) # {} )
           => /\ req'[r].pc = "commit"
              /\ \E u \in UsersByEmail(req[r].arg.email) : req'[r].user = u.id
              /\ TablesUnchanged
        /\ ( /\ req[r].op = "stripe_webhook" /\ req[r].pc = "commit"
             /\ req'[r].pc # "commit"
             /\ CauseById(req[r].arg.metadata.id) # {} )
           => /\ \E d \in donations' :
                    /\ d \notin donations
                    /\ donations' = donations \cup {d}
                    /\ d.amount.units * 100 + d.amount.cents = req[r].arg.amount
                    /\ d.amount.cents \in 0..99
                    /\ d.cause_id = req[r].arg.metadata.id
                    /\ \E u \in UsersByEmail(req[r].arg.email) : d.donor_id = u.id
              /\ users' = users /\ causes' = causes
              /\ req'[r].status = 200
      ]_vars

\* A delivery has added a donation of 19.99 for 1999 minor units and was
\* answered 200.
C3_Witness ==
    /\ \E d \in donations : d.amount = [units |-> 19, cents |-> 99]
    /\ \E r \in Reqs : req[r] = Done("stripe_webhook", 200, "")

\* C4: when the Cause lookup or the User lookup of a charge-succeeded
\* delivery finds nothing, the delivery ends 404 "Cause or User not found"
\* and creates no Donation.
C4_MissingReferenceIs404 ==
    [][\A r \in Reqs :
        ( /\ req[r].op = "stripe_webhook" /\ req[r].pc = "select_user"
          /\ req'[r].pc # "select_user"
          /\ (req[r].cause = NoId \/ UsersByEmail(req[r].arg.email) = {}) )
        => /\ req'[r] = Done("stripe_webhook", 404, "Cause or User not found")
           /\ donations' = donations
      ]_vars

\* C5: a delivery whose signature does not verify against the endpoint
\* secret is answered 400 and the step changes no User, Cause or Donation,
\* whatever event its body holds.
C5_BadSignatureRejected ==
    [][\A r \in Reqs :
        ( /\ req[r].op = "stripe_webhook" /\ req[r].pc = "construct_event"
          /\ req'[r].pc # "construct_event"
          /\ req[r].arg.signedWith # STRIPE_ENDPOINT_SECRET )
        => /\ req'[r].pc = "done"
           /\ req'[r].status = 400
           /\ TablesUnchanged
      ]_vars

\* A forged delivery was answered 400 while a user, a cause and a donation
\* are stored.
C5_Witness ==
    /\ \E r \in Reqs : req[r] = Done("stripe_webhook", 400, "Invalid signature")
    /\ users # {} /\ causes # {} /\ donations # {}

\* C6: a token returned for a user id verifies to that id at every time
\* before issuance + 30 minutes, and fails verification with the
\* credentials exception at every time after.
C6_TokenValidUntilExpiry ==
    \A i \in issued :
        /\ now < i.at + ACCESS_TOKEN_EXPIRE_MINUTES
             => /\ verify_token_access(i.token, now).kind = "token_data"
                /\ verify_token_access(i.token, now).id.val = i.user_id
        /\ now > i.at + ACCESS_TOKEN_EXPIRE_MINUTES
             => verify_token_access(i.token, now).kind = "credentials_exception"

\* C7: a token that verifies but whose identity matches no User ends
\* get_current_user with 401.
C7_UnknownUserIsUnauthorized ==
    [][\A r \in Reqs :
        ( /\ req[r].op = "get_current_user" /\ req[r].pc = "select"
          /\ req'[r].pc # "select"
          /\ \A u \in users : u.id # req[r].arg.val )
        => req'[r].status = 401
      ]_vars

\* C8: no two User records share an email.
C8_EmailsUnique ==
    \A u1 \in users : \A u2 \in users : u1.email = u2.email => u1 = u2

\* C9: two failed logins, one for an unregistered username and one for a
\* registered username with a wrong password, get the same status code and
\* detail.
C9_FailedLoginsIndistinguishable ==
    \A r1 \in Reqs : \A r2 \in Reqs :
        ( /\ req[r1].op = "login" /\ req[r1].pc = "done" /\ req[r1].status # 200
          /\ req[r2].op = "login" /\ req[r2].pc = "done" /\ req[r2].status # 200 )
        => /\ req[r1].status = req[r2].status
           /\ req[r1].detail = req[r2].detail

\* C10: a delivered charge-succeeded event carrying exactly the metadata
\* create_checkout_session wrote for an existing cause c, with a billing
\* email of an existing user, makes the handler resolve cause c.
C10_CheckoutMetadataRecovered ==
    [][\A r \in Reqs : \A c \in causes :
        ( /\ req[r].op = "stripe_webhook" /\ req[r].pc = "construct_event"
          /\ req'[r].pc # "construct_event"
          /\ req[r].arg.signedWith = STRIPE_ENDPOINT_SECRET
          /\ req[r].arg.json
          /\ req[r].arg.event.type = "charge.succeeded"
          /\ [metadata |-> req[r].arg.event.metadata] \in sessions
          /\ req[r].arg.event.metadata = CheckoutMetadata(c.id)
          /\ UsersByEmail(req[r].arg.event.email) # {} )
        => /\ req'[r].pc = "select_user"
           /\ req'[r].cause = c.id
      ]_vars

====
